---- MODULE Spec2Model ----
(***************************************************************************)
(* Model of compress_image_bytes (src/compress_service.py, lines 25-55):   *)
(* mode conversion / alpha flattening, proportional resize, and the JPEG   *)
(* quality ladder that re-encodes until the output fits MAX_BYTES or the   *)
(* quality reaches 30.                                                     *)
(*                                                                         *)
(* An image is a record [mode, size, px, info]; px is a sequence of pixel  *)
(* samples of the raster, each pixel the tuple of its band values in       *)
(* Pillow's band order (RGB: <<r,g,b>>, RGBA: <<r,g,b,a>>, LA: <<l,a>>,    *)
(* L: <<l>>, P: <<index>>).  The encoded output is a record                *)
(* [q, len]: the quality it was encoded at and its length in bytes.        *)
(***************************************************************************)
EXTENDS Integers, Sequences, FiniteSets, TLC

VARIABLES
    JPEG_QUALITY,   \* line 13: initial quality, read from the environment
    MAX_DIM,        \* line 12: largest allowed side, read from the environment
    encoder,        \* the JPEG encoder's size behaviour for this buffer
    src,            \* the image as decoded by Image.open (line 26)
    img,            \* local img
    mask,           \* line 31: the band passed as mask= to paste
    new_size,       \* line 41: local new_size (<<>> until computed)
    quality,        \* line 48/50: local quality
    out_bytes,      \* line 46/53: local out_bytes
    attempts,       \* history: one [q, fits] per img.save call, in order
    pc              \* position in compress_image_bytes

vars == <<JPEG_QUALITY, MAX_DIM, encoder, src, img, mask, new_size,
          quality, out_bytes, attempts, pc>>

----------------------------------------------------------------------------
(* Bounds of the model *)

MaxQuality == 100
MaxSide == 5
MaxPixels == 2
SizeSpread == 1

----------------------------------------------------------------------------
(* Configuration, lines 11-13 *)

MAX_BYTES == 4 * 1024 * 1024

DefaultMaxDim == 1600

DefaultQuality == 86

QualityFloor == 30

----------------------------------------------------------------------------
(* IEEE-754 binary64 arithmetic on positive values, as used by lines 40-41. *)
(* A double is [m, e] with m = <<a, b, c>> the 53-bit significand split     *)
(* into limbs of 17, 18 and 18 bits, and value (a*2^36 + b*2^18 + c) *      *)
(* 2^(e-52).  Rounding is round-to-nearest, ties-to-even.                   *)

Limb == 262144

TopLimb == 131072

RECURSIVE Pow2(_)
Pow2(n) == IF n = 0 THEN 1 ELSE 2 * Pow2(n - 1)

RECURSIVE BitLength(_)
BitLength(x) == IF x = 0 THEN 0 ELSE 1 + BitLength(x \div 2)

\* significand + 1 ulp; carry is 1 when the significand wrapped to 2^52
SigInc(m) ==
    IF m[3] + 1 < Limb THEN [m |-> <<m[1], m[2], m[3] + 1>>, carry |-> 0]
    ELSE IF m[2] + 1 < Limb THEN [m |-> <<m[1], m[2] + 1, 0>>, carry |-> 0]
    ELSE IF m[1] + 1 < TopLimb THEN [m |-> <<m[1] + 1, 0, 0>>, carry |-> 0]
    ELSE [m |-> <<TopLimb \div 2, 0, 0>>, carry |-> 1]

\* round [m, e] up by one ulp when the discarded part (rem out of unit) says so
RoundNearestEven(m, e, rem, unit) ==
    IF 2 * rem > unit \/ (2 * rem = unit /\ m[3] % 2 = 1)
    THEN LET r == SigInc(m) IN [m |-> r.m, e |-> e + r.carry]
    ELSE [m |-> m, e |-> e]

RECURSIVE ShiftUp(_, _)
\* least s with n * 2^s >= d
ShiftUp(n, d) == IF n >= d THEN 0 ELSE 1 + ShiftUp(2 * n, d)

RECURSIVE ShiftDown(_, _)
\* greatest s with d * 2^s <= n   (n >= d)
ShiftDown(n, d) == IF n < 2 * d THEN 0 ELSE 1 + ShiftDown(n, 2 * d)

\* float(n) / float(d) for integers 1 <= n, d < 4096: the quotient is
\* normalised to [1, 2) by doubling n (up times) or d (dn times), its 53
\* significand bits come out of a long division in three limbs, and the
\* remainder decides the rounding
FloatDiv(n, d) ==
    LET up == ShiftUp(n, d)
        dn == IF n >= d THEN ShiftDown(n, d) ELSE 0
        n0 == n * Pow2(up)
        d0 == d * Pow2(dn)
        t1 == (n0 - d0) * (TopLimb \div 2)
        t2 == (t1 % d0) * Limb
        t3 == (t2 % d0) * Limb
    IN  RoundNearestEven(<<(TopLimb \div 2) + (t1 \div d0), t2 \div d0, t3 \div d0>>,
                         dn - up, t3 % d0, d0)

\* float(w) * f for an integer 1 <= w < 4096: the exact product in limbs
\* (t2, t1 % Limb, t0 % Limb), cut back to 53 bits by dropping its d low
\* bits, which decide the rounding
FloatMulInt(w, f) ==
    LET t0 == w * f.m[3]
        t1 == w * f.m[2] + (t0 \div Limb)
        t2 == w * f.m[1] + (t1 \div Limb)
    IN  CHOOSE r \in
          {RoundNearestEven(<<t2 \div Pow2(d),
                              ((t1 % Limb) \div Pow2(d)) + (t2 % Pow2(d)) * (Limb \div Pow2(d)),
                              ((t0 % Limb) \div Pow2(d)) + (t1 % Pow2(d)) * (Limb \div Pow2(d))>>,
                            f.e + d, (t0 % Limb) % Pow2(d), Pow2(d))
             : d \in {BitLength(t2) - 17}} : TRUE

\* int(f): truncation toward zero of a positive double below 2^17
FloatToInt(f) == IF f.e < 0 THEN 0 ELSE f.m[1] \div Pow2(16 - f.e)

----------------------------------------------------------------------------
(* Lines 36-42: the resize arithmetic *)

Max(a, b) == IF a >= b THEN a ELSE b

max_side(size) == Max(size[1], size[2])

\* variant: only the width is compared with the limit
NeedsResize_WidthOnly(size, maxDim) == size[1] > maxDim

NeedsResize(size, maxDim) == max_side(size) > maxDim

scale(size, maxDim) == FloatDiv(maxDim, max_side(size))

ScaledDim(d, sc) ==
    CHOOSE n \in {FloatToInt(p) : p \in {FloatMulInt(d, sc)}} : TRUE

\* the scale is computed once (line 40) and used for both sides (line 41)
NewSize(size, maxDim) ==
    CHOOSE ns \in {<<ScaledDim(size[1], sc), ScaledDim(size[2], sc)>>
                      : sc \in {scale(size, maxDim)}} : TRUE

----------------------------------------------------------------------------
(* Lines 48-53: the quality ladder arithmetic *)

\* int(quality * 0.85).  0.85 is the double 0.85 - 2.2e-17; for every
\* integer q in 1..2^31 the double product q * 0.85 truncates to
\* floor(85 q / 100): when 85 q / 100 is an integer the product rounds to
\* it exactly, otherwise it lies at least 1/20 away from any integer.
\* variant: a decay factor of 0.95
Decay_Slow(q) == (q * 95) \div 100

\* variant: round(quality * 0.85) instead of int(quality * 0.85)
Decay_Rounded(q) == (q * 85 + 50) \div 100

Decay(q) == (q * 85) \div 100

\* variant: the max(30, ...) clamp is missing
NextQuality_NoFloor(q) == Decay(q)

NextQuality(q) == Max(QualityFloor, Decay(q))

\* variant: the loop gives up ten quality points above the floor
LoopContinues_FloorEarly(ob, q) == ob.len > MAX_BYTES /\ q > QualityFloor + 10

\* variant: an output of exactly MAX_BYTES is treated as too large
LoopContinues_OffByOne(ob, q) == ob.len >= MAX_BYTES /\ q > QualityFloor

\* variant: the loop does not look at the output length
LoopContinues_IgnoresSize(ob, q) == q > QualityFloor

LoopContinues(ob, q) == ob.len > MAX_BYTES /\ q > QualityFloor

----------------------------------------------------------------------------
(* Lines 26-34: decoded images, mode conversion and alpha flattening *)

Modes == {"RGB", "RGBA", "LA", "L", "P"}

Bands(mode) ==
    CASE mode = "RGB"  -> <<"R", "G", "B">>
      [] mode = "RGBA" -> <<"R", "G", "B", "A">>
      [] mode = "LA"   -> <<"L", "A">>
      [] mode = "L"    -> <<"L">>
      [] mode = "P"    -> <<"P">>

White == <<255, 255, 255>>

Colours == {<<0, 0, 0>>, White, <<10, 128, 250>>}

Alphas == {0, 128, 255}

Greys == {0, 200}

\* the palette of the modelled P images: index -> RGB
Palette == [i \in {0, 1} |-> IF i = 0 THEN <<10, 128, 250>> ELSE <<0, 0, 0>>]

PixelsOf(mode) ==
    CASE mode = "RGB"  -> Colours
      [] mode = "RGBA" -> {c \o <<a>> : c \in Colours, a \in Alphas}
      [] mode = "LA"   -> {<<l, a>> : l \in Greys, a \in Alphas}
      [] mode = "L"    -> {<<l>> : l \in Greys}
      [] mode = "P"    -> {<<i>> : i \in DOMAIN Palette}

\* img.info is a set of <<key, value>> pairs
InfosOf(mode) ==
    IF mode = "P"
    THEN {{}} \cup {{<<"transparency", i>>} : i \in DOMAIN Palette}
    ELSE {{}}

HasKey(info, k) == \E kv \in info : kv[1] = k

Rasters(mode) ==
    UNION {[1..n -> PixelsOf(mode)] : n \in 1..MaxPixels}

\* line 29
TakesFlattenPath(im) ==
    \/ im.mode \in {"RGBA", "LA"}
    \/ (im.mode = "P" /\ HasKey(im.info, "transparency"))

\* img.split()[-1]: the last band of the image, as a single-band image.
\* Pillow's split() of a one-band image returns a copy of the image itself,
\* so the band image of a P image has mode "P"; otherwise it has mode "L".
LastBand(im) ==
    LET n == Len(Bands(im.mode))
    IN  [mode |-> IF n = 1 THEN im.mode ELSE "L",
         band |-> Bands(im.mode)[n],
         data |-> [i \in 1..Len(im.px) |-> im.px[i][n]]]

NoMask == [mode |-> "none", band |-> "none", data |-> <<>>]

\* the mask modes Pillow's paste accepts; any other raises
\* ValueError("bad transparency mask")
PasteMaskModes == {"1", "L", "LA", "RGBA", "RGBa"}

\* Pillow's BLEND8: in1 * (255 - m) / 255 + in2 * m / 255, rounded
Blend8(m, in1, in2) ==
    LET tmp == in1 * (255 - m) + in2 * m + 128
    IN  ((tmp \div 256) + tmp) \div 256

\* colour of a pixel as pasted into / converted to RGB
ToRGB(mode, p) ==
    CASE mode = "RGB"  -> p
      [] mode = "RGBA" -> <<p[1], p[2], p[3]>>
      [] mode = "LA"   -> <<p[1], p[1], p[1]>>
      [] mode = "L"    -> <<p[1], p[1], p[1]>>
      [] mode = "P"    -> Palette[p[1]]

\* lines 30-31: Image.new("RGB", size, white) then paste(img, mask=m)
Paste(im, m) ==
    [mode |-> "RGB",
     size |-> im.size,
     info |-> {},
     px   |-> [i \in 1..Len(im.px) |->
                 LET c == ToRGB(im.mode, im.px[i])
                 IN  <<Blend8(m.data[i], White[1], c[1]),
                       Blend8(m.data[i], White[2], c[2]),
                       Blend8(m.data[i], White[3], c[3])>>]]

\* line 34: img.convert("RGB")
ConvertToRGB(im) ==
    [mode |-> "RGB",
     size |-> im.size,
     info |-> im.info,
     px   |-> [i \in 1..Len(im.px) |-> ToRGB(im.mode, im.px[i])]]

\* line 42: img.resize(new_size, LANCZOS).  The resampled pixel values are
\* not tracked: the resized image carries no pixel samples.
Resized(im, size) == [im EXCEPT !.size = size, !.px = <<>>]

----------------------------------------------------------------------------
(* The JPEG encoder (img.save, lines 45 and 52) as seen by the ladder: a   *)
(* function from quality to output length for the normalized buffer.  Its  *)
(* values are chosen when an encode happens, subject to what `encoder`     *)
(* fixes in advance: fits_at is a quality at which the encoding is known   *)
(* to fit MAX_BYTES (NoQuality when none is fixed), and monotone says      *)
(* that the length never grows when the quality is lowered.                *)

NoQuality == 0

Lens == (MAX_BYTES - SizeSpread)..(MAX_BYTES + SizeSpread)

EncodeLens(q, prev) ==
    {l \in Lens :
        /\ (q = encoder.fits_at => l <= MAX_BYTES)
        /\ encoder.monotone =>
              /\ (prev.q # NoQuality /\ q <= prev.q => l <= prev.len)
              /\ (encoder.fits_at # NoQuality /\ q <= encoder.fits_at
                     => l <= MAX_BYTES)}

NoBytes == [q |-> NoQuality, len |-> 0]

\* the history entry of one img.save call
Attempt(ob) == [q |-> ob.q, fits |-> ob.len <= MAX_BYTES]

----------------------------------------------------------------------------
(* Initial states: the arguments and configuration of one call *)

ExtraSides == {49, 1600, 2156, 2999, 3000, 4000}

Sides == (1..MaxSide) \cup ExtraSides

Dims == (1..MaxSide) \cup {DefaultMaxDim}

PlainImage == [mode |-> "RGB", size |-> <<2, 1>>, info |-> {}, px |-> <<White>>]

PlainEncoder == [monotone |-> TRUE, fits_at |-> NoQuality]

\* images of every mode, default configuration
InitModes ==
    /\ JPEG_QUALITY = DefaultQuality
    /\ MAX_DIM = DefaultMaxDim
    /\ encoder = PlainEncoder
    /\ \E mode \in Modes : \E px \in Rasters(mode) : \E info \in InfosOf(mode) :
          src = [mode |-> mode, size |-> <<Len(px), 1>>, info |-> info, px |-> px]

\* RGB images of every size, every MAX_DIM
InitSizes ==
    /\ JPEG_QUALITY = DefaultQuality
    /\ MAX_DIM \in Dims
    /\ encoder = PlainEncoder
    /\ \E w \in Sides : \E h \in Sides :
          src = [PlainImage EXCEPT !.size = <<w, h>>]

\* one RGB image, every JPEG_QUALITY and encoder behaviour
InitQualities ==
    /\ JPEG_QUALITY \in 1..MaxQuality
    /\ MAX_DIM = DefaultMaxDim
    /\ encoder \in [monotone : BOOLEAN, fits_at : 0..MaxQuality]
    /\ src = PlainImage

Start ==
    /\ img = src
    /\ mask = NoMask
    /\ new_size = <<>>
    /\ quality = NoQuality
    /\ out_bytes = NoBytes
    /\ attempts = <<>>
    /\ pc = "convert"

Init == (InitModes \/ InitSizes \/ InitQualities) /\ Start

\* the calls used for termination: every JPEG_QUALITY, one image per path
\* through the function
TerminationImages ==
    {PlainImage,
     [PlainImage EXCEPT !.size = <<4000, 3000>>],
     [PlainImage EXCEPT !.size = <<1, 4000>>],
     [mode |-> "L", size |-> <<1, 1>>, info |-> {}, px |-> <<<<200>>>>],
     [mode |-> "RGBA", size |-> <<1, 1>>, info |-> {}, px |-> <<<<10, 128, 250, 128>>>>],
     [mode |-> "P", size |-> <<1, 1>>, info |-> {<<"transparency", 0>>}, px |-> <<<<0>>>>]}

InitTermination ==
    /\ JPEG_QUALITY \in 1..MaxQuality
    /\ MAX_DIM = DefaultMaxDim
    /\ encoder \in [monotone : BOOLEAN, fits_at : {NoQuality}]
    /\ src \in TerminationImages
    /\ Start

----------------------------------------------------------------------------
(* Actions: the steps of compress_image_bytes *)

\* lines 29-32
Flatten ==
    /\ pc = "convert"
    /\ TakesFlattenPath(img)
    /\ mask' = LastBand(img)
    /\ IF mask'.mode \in PasteMaskModes
       THEN img' = Paste(img, mask') /\ pc' = "resize"
       ELSE img' = img /\ pc' = "raised"
    /\ UNCHANGED <<JPEG_QUALITY, MAX_DIM, encoder, src, new_size, quality,
                   out_bytes, attempts>>

\* lines 33-34
Convert ==
    /\ pc = "convert"
    /\ ~TakesFlattenPath(img)
    /\ img.mode # "RGB"
    /\ img' = ConvertToRGB(img)
    /\ pc' = "resize"
    /\ UNCHANGED <<JPEG_QUALITY, MAX_DIM, encoder, src, mask, new_size,
                   quality, out_bytes, attempts>>

\* line 33, condition false: the image is already RGB
KeepMode ==
    /\ pc = "convert"
    /\ ~TakesFlattenPath(img)
    /\ img.mode = "RGB"
    /\ pc' = "resize"
    /\ UNCHANGED <<JPEG_QUALITY, MAX_DIM, encoder, src, img, mask, new_size,
                   quality, out_bytes, attempts>>

\* lines 37-42.  Pillow's resize raises ValueError for a size with a zero
\* component.
Resize ==
    /\ pc = "resize"
    /\ NeedsResize(img.size, MAX_DIM)
    /\ new_size' = NewSize(img.size, MAX_DIM)
    /\ IF new_size'[1] >= 1 /\ new_size'[2] >= 1
       THEN img' = Resized(img, new_size') /\ pc' = "encode"
       ELSE img' = img /\ pc' = "raised"
    /\ UNCHANGED <<JPEG_QUALITY, MAX_DIM, encoder, src, mask, quality,
                   out_bytes, attempts>>

\* line 39, condition false
KeepSize ==
    /\ pc = "resize"
    /\ ~NeedsResize(img.size, MAX_DIM)
    /\ pc' = "encode"
    /\ UNCHANGED <<JPEG_QUALITY, MAX_DIM, encoder, src, img, mask, new_size,
                   quality, out_bytes, attempts>>

\* lines 44-48
EncodeFirst ==
    /\ pc = "encode"
    /\ \E l \in EncodeLens(JPEG_QUALITY, out_bytes) :
          out_bytes' = [q |-> JPEG_QUALITY, len |-> l]
    /\ quality' = JPEG_QUALITY
    /\ attempts' = Append(attempts, Attempt(out_bytes'))
    /\ pc' = "ladder"
    /\ UNCHANGED <<JPEG_QUALITY, MAX_DIM, encoder, src, img, mask, new_size>>

\* lines 49-53: one iteration of the while loop
LadderStep ==
    /\ pc = "ladder"
    /\ LoopContinues(out_bytes, quality)
    /\ quality' = NextQuality(quality)
    /\ \E l \in EncodeLens(quality', out_bytes) :
          out_bytes' = [q |-> quality', len |-> l]
    /\ attempts' = Append(attempts, Attempt(out_bytes'))
    /\ UNCHANGED <<JPEG_QUALITY, MAX_DIM, encoder, src, img, mask, new_size, pc>>

\* line 49 condition false, line 55: return out_bytes
Return ==
    /\ pc = "ladder"
    /\ ~LoopContinues(out_bytes, quality)
    /\ pc' = "done"
    /\ UNCHANGED <<JPEG_QUALITY, MAX_DIM, encoder, src, img, mask, new_size,
                   quality, out_bytes, attempts>>

Next ==
    \/ Flatten
    \/ Convert
    \/ KeepMode
    \/ Resize
    \/ KeepSize
    \/ EncodeFirst
    \/ LadderStep
    \/ Return

Spec == Init /\ [][Next]_vars

\* the call runs to completion: no step of the function is ever abandoned
FairSpec == InitTermination /\ [][Next]_vars /\ WF_vars(Next)

----------------------------------------------------------------------------
(* Properties *)

Returned == pc = "done"

Encoding == pc \in {"encode", "ladder", "done"}

\* some img.save call produced an output within MAX_BYTES
SomeAttemptFits == \E i \in 1..Len(attempts) : attempts[i].fits

\* every img.save call but the last produced an output over MAX_BYTES
OnlyLastMayFit == \A i \in 1..Len(attempts) : attempts[i].fits => i = Len(attempts)

\* the attempted qualities, when every attempt from 86 is over budget
Ladder86 == <<86, 73, 62, 52, 44, 37, 31, 30>>

\* the quality of the returned encoding when no attempt fits
LastRung == IF JPEG_QUALITY >= QualityFloor THEN QualityFloor ELSE JPEG_QUALITY

\* C1 (as stated): whatever the encoder's size function, if some quality q
\* with 30 <= q <= JPEG_QUALITY encodes within MAX_BYTES, the returned bytes
\* are within MAX_BYTES.
C1_FitsForAnyEncoder ==
    (Returned /\ encoder.fits_at >= QualityFloor /\ encoder.fits_at <= JPEG_QUALITY)
        => out_bytes.len <= MAX_BYTES

\* C1 (amended): for an encoder whose output length never grows when the
\* quality is lowered, if some quality q with 30 <= q <= JPEG_QUALITY encodes
\* within MAX_BYTES, the returned bytes are within MAX_BYTES.
C1_FitsForMonotoneEncoder ==
    (Returned /\ encoder.monotone
       /\ encoder.fits_at >= QualityFloor /\ encoder.fits_at <= JPEG_QUALITY)
        => out_bytes.len <= MAX_BYTES

\* a monotone encoder fits at a quality the ladder skips, the first attempts
\* were over budget, and the returned bytes fit
C1_Witness ==
    /\ Returned
    /\ encoder.monotone
    /\ encoder.fits_at >= QualityFloor
    /\ encoder.fits_at <= JPEG_QUALITY
    /\ \A i \in 1..Len(attempts) : attempts[i].q # encoder.fits_at
    /\ Len(attempts) >= 3
    /\ out_bytes.len <= MAX_BYTES

\* C2 (as stated): the function returns its last attempt; that attempt is the
\* first one within MAX_BYTES (no encode follows an attempt that fits) or, when
\* no attempt fits, the one at quality 30; an over-budget result is returned,
\* not raised (nothing raises once encoding has started).
C2_StopsAtFirstFitOrFloor ==
    /\ pc = "raised" => attempts = <<>>
    /\ OnlyLastMayFit
    /\ Returned =>
          /\ out_bytes.q = attempts[Len(attempts)].q
          /\ (out_bytes.len <= MAX_BYTES) = attempts[Len(attempts)].fits
          /\ ~SomeAttemptFits => out_bytes.q = QualityFloor

\* C2 (amended): as stated, except that when no attempt fits the returned
\* encoding is the one at quality 30 if JPEG_QUALITY >= 30 and the single
\* attempt at JPEG_QUALITY if JPEG_QUALITY < 30.
C2_StopsAtFirstFitOrLastRung ==
    /\ pc = "raised" => attempts = <<>>
    /\ OnlyLastMayFit
    /\ Returned =>
          /\ out_bytes.q = attempts[Len(attempts)].q
          /\ (out_bytes.len <= MAX_BYTES) = attempts[Len(attempts)].fits
          /\ ~SomeAttemptFits => out_bytes.q = LastRung

\* the ladder stopped in the middle, at the first attempt that fits
C2_Witness ==
    /\ Returned
    /\ Len(attempts) >= 3
    /\ attempts[Len(attempts)].fits
    /\ out_bytes.q > QualityFloor
    /\ out_bytes.q < JPEG_QUALITY

\* C3 (as stated): for every JPEG_QUALITY the returned quality is >= 30 and
\* the attempted qualities never rise.
C3_QualityAtLeastFloor ==
    /\ Returned => out_bytes.q >= QualityFloor
    /\ \A i \in 1..Len(attempts) : \A j \in i..Len(attempts) :
          attempts[j].q <= attempts[i].q

\* C3 (amended): for every JPEG_QUALITY >= 30 the returned quality is >= 30;
\* for every JPEG_QUALITY the attempted qualities never rise.
C3_QualityAtLeastFloorFromFloor ==
    /\ (Returned /\ JPEG_QUALITY >= QualityFloor) => out_bytes.q >= QualityFloor
    /\ \A i \in 1..Len(attempts) : \A j \in i..Len(attempts) :
          attempts[j].q <= attempts[i].q

\* the ladder ran from above the floor down to the floor
C3_Witness ==
    /\ Returned
    /\ JPEG_QUALITY > QualityFloor
    /\ Len(attempts) >= 2
    /\ out_bytes.q = QualityFloor

\* C4: when the encoding at JPEG_QUALITY fits MAX_BYTES there is exactly one
\* img.save call and the returned encoding is the one at JPEG_QUALITY.
C4_OneEncodeWhenInitialFits ==
    (Len(attempts) >= 1 /\ attempts[1].fits) =>
        /\ Len(attempts) = 1
        /\ out_bytes.q = JPEG_QUALITY
        /\ quality = JPEG_QUALITY

\* the first encode fits although the quality is above the floor
C4_Witness ==
    /\ Returned
    /\ JPEG_QUALITY > QualityFloor
    /\ attempts[1].fits
    /\ Len(attempts) = 1

\* C5: the call always terminates; each ladder step strictly lowers the
\* quality; from JPEG_QUALITY 86 there are at most 8 img.save calls, and at
\* most 8 for every JPEG_QUALITY in 1..100.
C5_LadderTerminates ==
    /\ [](/\ \A i \in 1..Len(attempts) : \A j \in (i + 1)..Len(attempts) :
                attempts[j].q < attempts[i].q
          /\ JPEG_QUALITY <= 100 => Len(attempts) <= 8)
    /\ <>(pc \in {"done", "raised"})

\* every attempt from 86 down to the floor was made
C5_Witness ==
    /\ Returned
    /\ JPEG_QUALITY = 86
    /\ Len(attempts) = 8

\* C6: from JPEG_QUALITY 86 the attempted qualities are a prefix of
\* 86, 73, 62, 52, 44, 37, 31, 30; the ladder goes on exactly while the
\* attempts are over budget and the quality is above 30, so with every
\* attempt over budget the whole sequence is attempted.
C6_LadderFrom86 ==
    JPEG_QUALITY = 86 =>
        /\ Len(attempts) <= Len(Ladder86)
        /\ \A i \in 1..Len(attempts) : attempts[i].q = Ladder86[i]
        /\ OnlyLastMayFit
        /\ Returned =>
              \/ attempts[Len(attempts)].fits
              \/ [i \in 1..Len(attempts) |-> attempts[i].q] = Ladder86

\* every attempt from 86 was over budget, the floor included
C6_Witness ==
    /\ Returned
    /\ JPEG_QUALITY = 86
    /\ ~SomeAttemptFits
    /\ out_bytes.q = 30

\* C7: the buffer handed to the encoder has max(width, height) <= MAX_DIM,
\* and when the source's long side is already <= MAX_DIM no resize occurs
\* and the size is unchanged.
C7_LongSideBounded ==
    Encoding =>
        /\ max_side(img.size) <= MAX_DIM
        /\ max_side(src.size) <= MAX_DIM =>
              (img.size = src.size /\ new_size = <<>>)

\* a tall image was resized down to the limit
C7_Witness ==
    /\ Encoding
    /\ src.size[2] > MAX_DIM
    /\ src.size[1] <= MAX_DIM
    /\ new_size # <<>>
    /\ max_side(img.size) <= MAX_DIM

\* C8: when the long side exceeds MAX_DIM, each new dimension is the original
\* one times MAX_DIM / long side rounded to the nearest integer: the long
\* side becomes exactly MAX_DIM and each side is within 1/2 px of the exact
\* proportional value.
C8_RoundedToNearest ==
    new_size # <<>> =>
        /\ max_side(new_size) = MAX_DIM
        /\ \A i \in 1..2 :
              LET exactNum == src.size[i] * MAX_DIM
                  diff     == new_size[i] * max_side(src.size) - exactNum
              IN  2 * diff <= max_side(src.size) /\ -2 * diff <= max_side(src.size)

\* C9: on the flattening path (RGBA, LA, or P with a transparency entry) the
\* blend mask is the image's alpha channel, every fully transparent pixel
\* becomes white and every fully opaque pixel keeps its source colour.
C9_FlattenUsesAlpha ==
    (TakesFlattenPath(src) /\ pc # "convert") =>
        /\ mask.band = "A"
        /\ img.mode = "RGB"
        /\ \A i \in 1..Len(src.px) :
              LET transparent ==
                      IF src.mode = "P"
                      THEN <<"transparency", src.px[i][1]>> \in src.info
                      ELSE src.px[i][Len(src.px[i])] = 0
                  opaque ==
                      IF src.mode = "P"
                      THEN ~transparent
                      ELSE src.px[i][Len(src.px[i])] = 255
              IN  (pc = "resize" /\ img.mode = "RGB") =>
                      /\ transparent => img.px[i] = White
                      /\ opaque => img.px[i] = ToRGB(src.mode, src.px[i])

\* C10: the resize step never produces a zero dimension, and the buffer
\* handed to the encoder has width >= 1 and height >= 1.
C10_NoZeroDimension ==
    /\ new_size # <<>> => (new_size[1] >= 1 /\ new_size[2] >= 1)
    /\ Encoding => (img.size[1] >= 1 /\ img.size[2] >= 1)

====
